---- MODULE Spec2Model ----
(***************************************************************************)
(* Model of the insights engine of github-test-reporter:                   *)
(*   - the per-test metrics aggregator, the rate derivers and the snapshot *)
(*     composers (src/unnamed/part_001, the engine with run-metric         *)
(*     consolidation),                                                     *)
(*   - the baseline differ calculateReportInsightsBaseline (part_001).     *)
(*                                                                         *)
(* Numbers.  Counters and durations are integers.  A metric value (a rate  *)
(* or an average, the result of Number(x.toFixed(2))) is held as an        *)
(* integer number of thousandths: 66.67 is 66670, 0.125 is 125.  An        *)
(* optional field of a JavaScript object is a field that is, or is not, in *)
(* the DOMAIN of the record.                                               *)
(***************************************************************************)
EXTENDS Integers, Sequences, FiniteSets, TLC

VARIABLES
    reports,             \* allReports = [currentReport, ...previousReports]
    pc,                  \* "input": the caller is assembling the reports;
                         \* "record": the list ends with a record of WideTests;
                         \* "history": the caller is assembling the reports of
                         \* the extractor;
                         \* "pair": the caller is assembling the two reports
                         \* of the differ;
                         \* "done": the called operation has returned;
                         \* "raised": extractPreviousRunsData has raised a
                         \* TypeError
    op,                  \* the operation that was called ("" before the call)
    metricsMap,          \* the Map built by aggregateTestMetricsAcrossReports
    insights,            \* the value returned by calculateCurrentInsights
    reportWithInsights,  \* the value returned by addTestInsightsToCurrentReport
    previousReport,      \* second argument of calculateReportInsightsBaseline
    baseline,            \* the value returned by calculateReportInsightsBaseline
    previousRuns         \* the value returned by extractPreviousRunsData

vars == <<reports, pc, op, metricsMap, insights, reportWithInsights,
          previousReport, baseline, previousRuns>>

-----------------------------------------------------------------------------
(* Bounds of the model.                                                    *)

MaxReports == 2
MaxTests == 3
MaxRetries == 3
MaxPrefixTests == 1
MaxWholeReports == 3
MaxRunTests == 2

-----------------------------------------------------------------------------
(* JavaScript values.                                                      *)

Has(obj, field) == field \in DOMAIN obj

\* x.field || 0 for an optional numeric field: undefined and 0 both give 0.
OrZero(obj, field) == IF Has(obj, field) THEN obj[field] ELSE 0

Abs(x) == IF x < 0 THEN -x ELSE x

\* The values 0 / 0 and x / 0 (x > 0) of JavaScript, which no metric of the
\* model can equal; toFixed and Number hand both through.
NaN == -999999999
Infinity == 999999999

\* Number((n / d).toFixed(2)) in thousandths: the nearest multiple of 0.01, a
\* tie going to the larger magnitude (Number.prototype.toFixed picks the
\* larger of two equally close integers and handles the sign apart).  The
\* quotients of the model are exact in binary or no tie, so the rounding of
\* the double is the rounding of the fraction.
ToFixed2(n, d) ==
    IF d = 0 THEN (IF n = 0 THEN NaN ELSE Infinity)
    ELSE LET hundredths == (2 * Abs(n) * 100 + d) \div (2 * d)
         IN  IF n < 0 THEN -(10 * hundredths) ELSE 10 * hundredths

\* Number(((n / d) * 100).toFixed(2)), in thousandths.
PercentToFixed2(n, d) == ToFixed2(100 * n, d)

\* Number((a - b).toFixed(2)) for two metric values held in thousandths.
DiffToFixed2(a, b) == ToFixed2(a - b, 1000)

-----------------------------------------------------------------------------
(* The report model (part_001, lines 11-122).                              *)

Names == {"a", "b"}
CtrfTestState == {"passed", "failed", "skipped", "pending", "other"}
Durations == {0, 50, 100, 120}

\* retries?: number, when the field is not there.
Absent == -1

\* A CtrfTest with the fields the engine reads; retries and flaky are optional.
MkTest(name, status, duration, retries, flaky) ==
    LET base == [name |-> name, status |-> status, duration |-> duration]
        r    == IF retries = Absent THEN base ELSE ("retries" :> retries) @@ base
    IN  CASE flaky = "absent" -> r
          [] flaky = "true"   -> ("flaky" :> TRUE) @@ r
          [] flaky = "false"  -> ("flaky" :> FALSE) @@ r

\* Every test record over the field values of the model.
WideTests ==
    { MkTest(n, s, d, r, f) :
        n \in Names, s \in CtrfTestState, d \in Durations,
        r \in {Absent} \cup (0 .. MaxRetries), f \in {"absent", "true", "false"} }

\* The records the report lists of the model are made of: those of the spec's
\* scenario (a passed 100; b failed 50; a failed after one retry, 120), a pass
\* after two retries (flaky by inference) and a skipped test the tool flagged
\* flaky.
NarrowTests ==
    { MkTest("a", "passed", 100, Absent, "absent"),
      MkTest("b", "failed", 50, Absent, "absent"),
      MkTest("a", "failed", 120, 1, "absent"),
      MkTest("b", "passed", 100, 2, "absent"),
      MkTest("a", "skipped", 0, 0, "true") }

\* The shapes of a report the engine tells apart: results.tests is a list;
\* results.tests is missing; results.tests is not a list.
Shapes == {"ok", "noTests", "testsNotArray"}

\* results.summary: the run's start and stop.
MkSummary(start, stop) == [start |-> start, stop |-> stop]

DefaultSummary == MkSummary(1000, 5000)

\* A CtrfReport: the shape of results, results.tests (empty unless the shape
\* is "ok"), results.summary, and the optional insights.
MkReport(shape, tests, summary) ==
    [shape |-> shape, tests |-> tests, summary |-> summary]

-----------------------------------------------------------------------------
(* Utility functions (part_001, lines 134-147).                            *)

\* isTestFlaky without the test of the final status: any retried test is flaky.
isTestFlaky_AnyRetry(test) ==
    \/ Has(test, "flaky") /\ test.flaky
    \/ Has(test, "retries") /\ test.retries # 0 /\ test.retries > 0

isTestFlaky(test) ==
    \/ Has(test, "flaky") /\ test.flaky
    \/ /\ Has(test, "retries") /\ test.retries # 0
       /\ test.retries > 0
       /\ test.status = "passed"

\* validateReportForInsights that takes every report for valid.
validateReportForInsights_Always(report) == TRUE

validateReportForInsights(report) == report.shape = "ok"

-----------------------------------------------------------------------------
(* aggregateTestMetricsAcrossReports (part_001, lines 174-244).            *)

ZeroMetrics ==
    [totalAttempts |-> 0, totalAttemptsFailed |-> 0, totalResults |-> 0,
     totalResultsFailed |-> 0, totalResultsPassed |-> 0,
     totalResultsSkipped |-> 0, totalResultsFlaky |-> 0,
     totalResultsDuration |-> 0, appearsInRuns |-> 0, reportsAnalyzed |-> 0]

\* CountStatus without its last branch: a test of status other is in no bucket.
CountStatus_NoOther(metrics, test) ==
    LET retries == OrZero(test, "retries")
    IN  CASE test.status = "failed" ->
               [metrics EXCEPT !.totalResultsFailed = @ + 1,
                               !.totalAttemptsFailed = @ + 1 + retries]
          [] test.status = "passed" ->
               [metrics EXCEPT !.totalResultsPassed = @ + 1]
          [] test.status \in {"skipped", "pending"} ->
               [metrics EXCEPT !.totalResultsSkipped = @ + 1]
          [] OTHER -> metrics

\* CountStatus that counts the final failed attempt only, the retries being
\* counted already.
CountStatus_FinalAttemptOnly(metrics, test) ==
    CASE test.status = "failed" ->
           [metrics EXCEPT !.totalResultsFailed = @ + 1,
                           !.totalAttemptsFailed = @ + 1]
      [] test.status = "passed" ->
           [metrics EXCEPT !.totalResultsPassed = @ + 1]
      [] test.status \in {"skipped", "pending", "other"} ->
           [metrics EXCEPT !.totalResultsSkipped = @ + 1]
      [] OTHER -> metrics

\* The status branch of the loop body (lines 213-224).
CountStatus(metrics, test) ==
    LET retries == OrZero(test, "retries")
    IN  CASE test.status = "failed" ->
               [metrics EXCEPT !.totalResultsFailed = @ + 1,
                               !.totalAttemptsFailed = @ + 1 + retries]
          [] test.status = "passed" ->
               [metrics EXCEPT !.totalResultsPassed = @ + 1]
          [] test.status = "skipped" ->
               [metrics EXCEPT !.totalResultsSkipped = @ + 1]
          [] test.status = "pending" ->
               [metrics EXCEPT !.totalResultsSkipped = @ + 1]
          [] test.status = "other" ->
               [metrics EXCEPT !.totalResultsSkipped = @ + 1]
          [] OTHER -> metrics

\* The flaky branch of the loop body (lines 225-227).
CountFlaky(metrics, test) ==
    IF isTestFlaky(test)
    THEN [metrics EXCEPT !.totalResultsFlaky = @ + 1]
    ELSE metrics

\* ProcessTest without the has() test of line 192: every record starts its
\* name's metrics afresh.
ProcessTest_AlwaysSet(map, test) ==
    LET retries == OrZero(test, "retries")
        counted == [ZeroMetrics EXCEPT !.totalResults = @ + 1,
                                       !.totalAttempts = @ + 1 + retries,
                                       !.totalAttemptsFailed = @ + retries]
        bucket  == CountStatus(counted, test)
        flaky   == CountFlaky(bucket, test)
        new     == [flaky EXCEPT !.totalResultsDuration = @ + OrZero(test, "duration")]
    IN  [n \in DOMAIN map \cup {test.name} |->
            IF n = test.name THEN new ELSE map[n]]

\* ProcessTest counting one attempt per record, retries forgotten.
ProcessTest_NoRetries(map, test) ==
    LET old     == IF test.name \in DOMAIN map THEN map[test.name] ELSE ZeroMetrics
        counted == [old EXCEPT !.totalResults = @ + 1,
                               !.totalAttempts = @ + 1]
        bucket  == CountStatus(counted, test)
        flaky   == CountFlaky(bucket, test)
        new     == [flaky EXCEPT !.totalResultsDuration = @ + OrZero(test, "duration")]
    IN  [n \in DOMAIN map \cup {test.name} |->
            IF n = test.name THEN new ELSE map[n]]

\* One pass of the loop over report.results.tests (lines 184-229).
ProcessTest(map, test) ==
    LET retries == OrZero(test, "retries")
        old     == IF test.name \in DOMAIN map THEN map[test.name] ELSE ZeroMetrics
        counted == [old EXCEPT !.totalResults = @ + 1,
                               !.totalAttempts = @ + 1 + retries,
                               !.totalAttemptsFailed = @ + retries]
        bucket  == CountStatus(counted, test)
        flaky   == CountFlaky(bucket, test)
        new     == [flaky EXCEPT !.totalResultsDuration = @ + OrZero(test, "duration")]
    IN  [n \in DOMAIN map \cup {test.name} |->
            IF n = test.name THEN new ELSE map[n]]

RECURSIVE ProcessTests(_, _)
ProcessTests(map, tests) ==
    IF tests = <<>> THEN map
    ELSE ProcessTests(ProcessTest(map, Head(tests)), Tail(tests))

\* What a for...of over results.tests raises when tests is undefined or an
\* object that is no list.
TypeError == [error |-> "TypeError"]

\* for (const test of report.results.tests) { ... } (lines 183-230).
ForEachTest(map, report) ==
    IF report.shape = "ok" THEN ProcessTests(map, report.tests) ELSE TypeError

\* The Set of the names of a report (lines 233-236).
testsInThisReport(report) ==
    { report.tests[i].name : i \in 1 .. Len(report.tests) }

\* CountAppearances over every name of the Map instead of the Set's.
CountAppearances_AllKnown(map, names) ==
    [n \in DOMAIN map |-> [map[n] EXCEPT !.appearsInRuns = @ + 1]]

\* appearsInRuns += 1 for each name of the Set (lines 237-240).
CountAppearances(map, names) ==
    [n \in DOMAIN map |->
        IF n \in names THEN [map[n] EXCEPT !.appearsInRuns = @ + 1] ELSE map[n]]

\* AggregateReport counting appearsInRuns once per record, not once per name.
AggregateReport_RawCount(map, report) ==
    IF ~validateReportForInsights(report) THEN map
    ELSE LET counted == ForEachTest(map, report)
         IN  [n \in DOMAIN counted |->
                [counted[n] EXCEPT !.appearsInRuns = @ +
                    Cardinality({ i \in 1 .. Len(report.tests) :
                                    report.tests[i].name = n })]]

\* AggregateReport that takes a malformed report for a run of every name
\* known so far.
AggregateReport_MalformedIsRun(map, report) ==
    IF ~validateReportForInsights(report) THEN CountAppearances(map, DOMAIN map)
    ELSE LET counted == ForEachTest(map, report)
         IN  IF counted = TypeError THEN TypeError
             ELSE CountAppearances(counted, testsInThisReport(report))

\* One pass of the loop over reports (lines 179-241).
AggregateReport(map, report) ==
    IF ~validateReportForInsights(report) THEN map
    ELSE LET counted == ForEachTest(map, report)
         IN  IF counted = TypeError THEN TypeError
             ELSE CountAppearances(counted, testsInThisReport(report))

RECURSIVE AggregateFrom(_, _)
AggregateFrom(map, rs) ==
    IF rs = <<>> \/ map = TypeError THEN map
    ELSE AggregateFrom(AggregateReport(map, Head(rs)), Tail(rs))

EmptyMap == [n \in {} |-> ZeroMetrics]

aggregateTestMetricsAcrossReports(rs) == AggregateFrom(EmptyMap, rs)

-----------------------------------------------------------------------------
(* consolidateTestMetricsToRunMetrics (part_001, lines 249-283).           *)

RECURSIVE SumSeq(_)
SumSeq(numbers) ==
    IF numbers = <<>> THEN 0 ELSE Head(numbers) + SumSeq(Tail(numbers))

RECURSIVE SumOver(_, _, _)
SumOver(map, names, field) ==
    IF names = {} THEN 0
    ELSE LET n == CHOOSE x \in names : TRUE
         IN  map[n][field] + SumOver(map, names \ {n}, field)

consolidateTestMetricsToRunMetrics(map) ==
    [totalAttempts        |-> SumOver(map, DOMAIN map, "totalAttempts"),
     totalAttemptsFailed  |-> SumOver(map, DOMAIN map, "totalAttemptsFailed"),
     totalResults         |-> SumOver(map, DOMAIN map, "totalResults"),
     totalResultsFailed   |-> SumOver(map, DOMAIN map, "totalResultsFailed"),
     totalResultsPassed   |-> SumOver(map, DOMAIN map, "totalResultsPassed"),
     totalResultsSkipped  |-> SumOver(map, DOMAIN map, "totalResultsSkipped"),
     totalResultsFlaky    |-> SumOver(map, DOMAIN map, "totalResultsFlaky"),
     totalResultsDuration |-> SumOver(map, DOMAIN map, "totalResultsDuration"),
     reportsAnalyzed      |-> Cardinality(DOMAIN map)]

-----------------------------------------------------------------------------
(* The rate derivers (part_001, lines 293-461).                            *)

\* calculateFlakyRateFromMetrics without the test of totalAttempts === 0.
calculateFlakyRateFromMetrics_NoGuard(runMetrics) ==
    PercentToFixed2(runMetrics.totalResultsFlaky, runMetrics.totalAttempts)

calculateFlakyRateFromMetrics(runMetrics) ==
    IF runMetrics.totalAttempts = 0 THEN 0
    ELSE PercentToFixed2(runMetrics.totalResultsFlaky, runMetrics.totalAttempts)

\* The fail rate taken from the failed attempts instead of the failed results.
calculateFailRateFromMetrics_Attempts(runMetrics) ==
    IF runMetrics.totalResults = 0 THEN 0
    ELSE PercentToFixed2(runMetrics.totalAttemptsFailed, runMetrics.totalResults)

calculateFailRateFromMetrics(runMetrics) ==
    IF runMetrics.totalResults = 0 THEN 0
    ELSE PercentToFixed2(runMetrics.totalResultsFailed, runMetrics.totalResults)

calculateSkippedRateFromMetrics(runMetrics) ==
    IF runMetrics.totalResults = 0 THEN 0
    ELSE PercentToFixed2(runMetrics.totalResultsSkipped, runMetrics.totalResults)

calculateAverageTestDurationFromMetrics(runMetrics) ==
    IF runMetrics.totalResults = 0 THEN 0
    ELSE ToFixed2(runMetrics.totalResultsDuration, runMetrics.totalResults)

calculateAverageRunDurationFromMetrics(runMetrics) ==
    IF runMetrics.reportsAnalyzed = 0 THEN 0
    ELSE ToFixed2(runMetrics.totalResultsDuration, runMetrics.reportsAnalyzed)

-----------------------------------------------------------------------------
(* calculateCurrentInsights (part_001, lines 497-537).                     *)

\* A current-only metric whose change is taken against a previous of 0.
Metric_ChangeFromZero(current) ==
    [current |-> current, previous |-> 0, change |-> current]

Metric(current) == [current |-> current, previous |-> 0, change |-> 0]

InsightsOf(runMetrics, nReports) ==
    [flakyRate           |-> Metric(calculateFlakyRateFromMetrics(runMetrics)),
     failRate            |-> Metric(calculateFailRateFromMetrics(runMetrics)),
     skippedRate         |-> Metric(calculateSkippedRateFromMetrics(runMetrics)),
     averageTestDuration |-> Metric(calculateAverageTestDurationFromMetrics(runMetrics)),
     averageRunDuration  |-> Metric(calculateAverageRunDurationFromMetrics(runMetrics)),
     reportsAnalyzed     |-> nReports,
     extra               |-> [f \in DOMAIN runMetrics \ {"reportsAnalyzed"} |-> runMetrics[f]]]

calculateCurrentInsightsOf(allReports) ==
    InsightsOf(consolidateTestMetricsToRunMetrics(
                   aggregateTestMetricsAcrossReports(allReports)),
               Len(allReports))

-----------------------------------------------------------------------------
(* The engine of src/ctrf/insights.ts: the same aggregator, derivers that  *)
(* sum over the Map themselves, and the average run duration taken from    *)
(* the reports' summaries.                                                 *)

\* AggregatedTestMetrics of insights.ts: the duration and the appearance
\* counter go by other names, and there is no reportsAnalyzed.
CtrfMetrics(metrics) ==
    [totalAttempts       |-> metrics.totalAttempts,
     totalAttemptsFailed |-> metrics.totalAttemptsFailed,
     totalResults        |-> metrics.totalResults,
     totalResultsFailed  |-> metrics.totalResultsFailed,
     totalResultsPassed  |-> metrics.totalResultsPassed,
     totalResultsSkipped |-> metrics.totalResultsSkipped,
     totalResultsFlaky   |-> metrics.totalResultsFlaky,
     totalDuration       |-> metrics.totalResultsDuration,
     appearsInReports    |-> metrics.appearsInRuns]

\* aggregateTestMetricsAcrossReports of insights.ts (lines 155-223): the loop
\* of part_001, statement for statement, over the metrics named as above.
aggregateTestMetricsAcrossReports_ctrf(rs) ==
    LET map == aggregateTestMetricsAcrossReports(rs)
    IN  IF map = TypeError THEN TypeError
        ELSE [n \in DOMAIN map |-> CtrfMetrics(map[n])]

calculateFlakyRateFromMetrics_ctrf(map) ==
    LET totalAttempts     == SumOver(map, DOMAIN map, "totalAttempts")
        totalResultsFlaky == SumOver(map, DOMAIN map, "totalResultsFlaky")
    IN  IF totalAttempts = 0 THEN 0
        ELSE PercentToFixed2(totalResultsFlaky, totalAttempts)

calculateFailRateFromMetrics_ctrf(map) ==
    LET totalResults       == SumOver(map, DOMAIN map, "totalResults")
        totalResultsFailed == SumOver(map, DOMAIN map, "totalResultsFailed")
    IN  IF totalResults = 0 THEN 0
        ELSE PercentToFixed2(totalResultsFailed, totalResults)

calculateSkippedRateFromMetrics_ctrf(map) ==
    LET totalResults        == SumOver(map, DOMAIN map, "totalResults")
        totalResultsSkipped == SumOver(map, DOMAIN map, "totalResultsSkipped")
    IN  IF totalResults = 0 THEN 0
        ELSE PercentToFixed2(totalResultsSkipped, totalResults)

calculateAverageTestDurationFromMetrics_ctrf(map) ==
    LET totalDuration == SumOver(map, DOMAIN map, "totalDuration")
        totalResults  == SumOver(map, DOMAIN map, "totalResults")
    IN  IF totalResults = 0 THEN 0
        ELSE ToFixed2(totalDuration, totalResults)

\* summary.start && summary.stop && summary.stop > summary.start: a start or
\* a stop of 0 is falsy.
HasRunDuration(summary) ==
    summary.start # 0 /\ summary.stop # 0 /\ summary.stop > summary.start

calculateAverageRunDurationFromReports(rs) ==
    LET counted == SelectSeq(rs, LAMBDA report :
                       validateReportForInsights(report)
                           /\ HasRunDuration(report.summary))
        totalRunDuration ==
            SumSeq([i \in 1 .. Len(counted) |->
                       counted[i].summary.stop - counted[i].summary.start])
        validReports == Len(counted)
    IN  IF validReports = 0 THEN 0
        ELSE ToFixed2(totalRunDuration, validReports)

\* calculateCurrentInsights of insights.ts (lines 473-507).
calculateCurrentInsightsOf_ctrf(allReports) ==
    LET metrics == aggregateTestMetricsAcrossReports_ctrf(allReports)
    IN  [flakyRate   |-> Metric(calculateFlakyRateFromMetrics_ctrf(metrics)),
         failRate    |-> Metric(calculateFailRateFromMetrics_ctrf(metrics)),
         skippedRate |-> Metric(calculateSkippedRateFromMetrics_ctrf(metrics)),
         averageTestDuration |->
             Metric(calculateAverageTestDurationFromMetrics_ctrf(metrics)),
         averageRunDuration |->
             Metric(calculateAverageRunDurationFromReports(allReports))]

-----------------------------------------------------------------------------
(* The single-metric composers of both engines (part_001, lines 310-484;   *)
(* insights.ts, lines 258-460).                                            *)

\* calculateFlakyRateInsight of part_001 (lines 310-323).
calculateFlakyRateInsightOf(allReports) ==
    LET testMetrics == aggregateTestMetricsAcrossReports(allReports)
    IN  IF testMetrics = TypeError THEN TypeError
        ELSE LET runMetrics == consolidateTestMetricsToRunMetrics(testMetrics)
             IN  Metric(calculateFlakyRateFromMetrics(runMetrics))

\* calculateFlakyRateInsight of insights.ts (lines 258-270).
calculateFlakyRateInsightOf_ctrf(allReports) ==
    LET metrics == aggregateTestMetricsAcrossReports_ctrf(allReports)
    IN  IF metrics = TypeError THEN TypeError
        ELSE Metric(calculateFlakyRateFromMetrics_ctrf(metrics))

\* calculateFailRateInsight of part_001 (lines 350-363).
calculateFailRateInsightOf(allReports) ==
    LET testMetrics == aggregateTestMetricsAcrossReports(allReports)
    IN  IF testMetrics = TypeError THEN TypeError
        ELSE LET runMetrics == consolidateTestMetricsToRunMetrics(testMetrics)
             IN  Metric(calculateFailRateFromMetrics(runMetrics))

\* calculateFailRateInsight of insights.ts (lines 305-317).
calculateFailRateInsightOf_ctrf(allReports) ==
    LET metrics == aggregateTestMetricsAcrossReports_ctrf(allReports)
    IN  IF metrics = TypeError THEN TypeError
        ELSE Metric(calculateFailRateFromMetrics_ctrf(metrics))

\* calculateSkippedRateInsight of part_001 (lines 390-403).
calculateSkippedRateInsightOf(allReports) ==
    LET testMetrics == aggregateTestMetricsAcrossReports(allReports)
    IN  IF testMetrics = TypeError THEN TypeError
        ELSE LET runMetrics == consolidateTestMetricsToRunMetrics(testMetrics)
             IN  Metric(calculateSkippedRateFromMetrics(runMetrics))

\* calculateSkippedRateInsight of insights.ts (lines 352-364).
calculateSkippedRateInsightOf_ctrf(allReports) ==
    LET metrics == aggregateTestMetricsAcrossReports_ctrf(allReports)
    IN  IF metrics = TypeError THEN TypeError
        ELSE Metric(calculateSkippedRateFromMetrics_ctrf(metrics))

\* calculateAverageTestDurationInsight of part_001 (lines 430-443).
calculateAverageTestDurationInsightOf(allReports) ==
    LET testMetrics == aggregateTestMetricsAcrossReports(allReports)
    IN  IF testMetrics = TypeError THEN TypeError
        ELSE LET runMetrics == consolidateTestMetricsToRunMetrics(testMetrics)
             IN  Metric(calculateAverageTestDurationFromMetrics(runMetrics))

\* calculateAverageTestDurationInsight of insights.ts (lines 399-411).
calculateAverageTestDurationInsightOf_ctrf(allReports) ==
    LET metrics == aggregateTestMetricsAcrossReports_ctrf(allReports)
    IN  IF metrics = TypeError THEN TypeError
        ELSE Metric(calculateAverageTestDurationFromMetrics_ctrf(metrics))

\* calculateAverageRunDurationInsight of part_001 (lines 470-484).
calculateAverageRunDurationInsightOf(allReports) ==
    LET testMetrics == aggregateTestMetricsAcrossReports(allReports)
    IN  IF testMetrics = TypeError THEN TypeError
        ELSE LET runMetrics == consolidateTestMetricsToRunMetrics(testMetrics)
             IN  Metric(calculateAverageRunDurationFromMetrics(runMetrics))

\* calculateAverageRunDurationInsight of insights.ts (lines 449-460).
calculateAverageRunDurationInsightOf_ctrf(allReports) ==
    Metric(calculateAverageRunDurationFromReports(allReports))

-----------------------------------------------------------------------------
(* The test-level insights (part_001, lines 546-657).                      *)

calculateTestFlakyRate(testName, testMetrics) ==
    Metric(IF testMetrics.totalResults = 0 THEN 0
           ELSE PercentToFixed2(testMetrics.totalResultsFlaky, testMetrics.totalResults))

calculateTestFailRate(testName, testMetrics) ==
    Metric(IF testMetrics.totalResults = 0 THEN 0
           ELSE PercentToFixed2(testMetrics.totalResultsFailed, testMetrics.totalResults))

calculateTestSkippedRate(testName, testMetrics) ==
    Metric(IF testMetrics.totalResults = 0 THEN 0
           ELSE PercentToFixed2(testMetrics.totalResultsSkipped, testMetrics.totalResults))

calculateTestAverageDuration(testName, testMetrics) ==
    Metric(IF testMetrics.totalResults = 0 THEN 0
           ELSE ToFixed2(testMetrics.totalResultsDuration, testMetrics.totalResults))

calculateTestInsights(testName, testMetrics) ==
    [flakyRate           |-> calculateTestFlakyRate(testName, testMetrics),
     failRate            |-> calculateTestFailRate(testName, testMetrics),
     skippedRate         |-> calculateTestSkippedRate(testName, testMetrics),
     averageTestDuration |-> calculateTestAverageDuration(testName, testMetrics),
     appearsInRuns       |-> testMetrics.appearsInRuns,
     extra               |-> [f \in DOMAIN testMetrics \ {"appearsInRuns", "reportsAnalyzed"}
                                |-> testMetrics[f]]]

\* { ...test, insights: testInsights } (lines 644-647).
WithInsights(test, testInsights) == ("insights" :> testInsights) @@ test

\* The attachment with the metrics of the current report alone.
addTestInsightsToCurrentReportOf_CurrentOnly(currentReport, previousReports) ==
    IF ~validateReportForInsights(currentReport) THEN currentReport
    ELSE LET testMetrics == aggregateTestMetricsAcrossReports(<<currentReport>>)
         IN  [currentReport EXCEPT !.tests =
                 [i \in 1 .. Len(currentReport.tests) |->
                     LET test == currentReport.tests[i]
                     IN  WithInsights(test,
                             calculateTestInsights(test.name, testMetrics[test.name]))]]

addTestInsightsToCurrentReportOf(currentReport, previousReports) ==
    IF ~validateReportForInsights(currentReport) THEN currentReport
    ELSE LET testMetrics ==
                 aggregateTestMetricsAcrossReports(<<currentReport>> \o previousReports)
         IN  IF testMetrics = TypeError \/ currentReport.shape # "ok" THEN TypeError
             ELSE
             [currentReport EXCEPT !.tests =
                 [i \in 1 .. Len(currentReport.tests) |->
                     LET test == currentReport.tests[i]
                     IN  IF test.name \in DOMAIN testMetrics
                         THEN WithInsights(test,
                                  calculateTestInsights(test.name, testMetrics[test.name]))
                         ELSE test]]

\* The attachment done in place: test.insights = testInsights on the tests of
\* the caller's current report.
ReportsAfterAttach_InPlace(allReports) ==
    LET attached ==
            addTestInsightsToCurrentReportOf(Head(allReports), Tail(allReports))
    IN  IF attached = TypeError THEN allReports
        ELSE <<attached>> \o Tail(allReports)

\* The caller's reports after addTestInsightsToCurrentReport: the result is
\* built from copies ({...currentReport, results: {...currentReport.results,
\* tests: tests.map(test => ({...test, insights}))}}, lines 634-654), so no
\* object of the caller is written to.
ReportsAfterAttach(allReports) == allReports

-----------------------------------------------------------------------------
(* The state machine: a caller assembles [currentReport, ...previous-      *)
(* Reports] and calls one operation of the engine on it.                   *)

NoValue == [none |-> TRUE]

Init ==
    /\ reports = <<>>
    /\ pc = "input"
    /\ op = ""
    /\ metricsMap = EmptyMap
    /\ insights = NoValue
    /\ reportWithInsights = NoValue
    /\ previousReport = NoValue
    /\ baseline = NoValue
    /\ previousRuns = NoValue

RECURSIVE TotalTests(_)
TotalTests(rs) ==
    IF rs = <<>> THEN 0 ELSE Len(Head(rs).tests) + TotalTests(Tail(rs))

\* The caller appends a report without tests.
AddReportFrom(shapes, summaries) ==
    /\ pc = "input"
    /\ \E shape \in shapes, summary \in summaries :
         reports' = Append(reports, MkReport(shape, <<>>, summary))
    /\ UNCHANGED <<pc, op, metricsMap, insights, reportWithInsights,
                   previousReport, baseline, previousRuns>>

\* The caller appends a test of `space` to the tests of the last report.
AddTestFrom(space) ==
    /\ Len(reports) > 0
    /\ reports[Len(reports)].shape = "ok"
    /\ \E test \in space :
         reports' = [reports EXCEPT ![Len(reports)].tests = Append(@, test)]
    /\ UNCHANGED <<op, metricsMap, insights, reportWithInsights,
                   previousReport, baseline, previousRuns>>

AddReport ==
    /\ Len(reports) < MaxReports
    /\ AddReportFrom(Shapes, {DefaultSummary})

AddTest ==
    /\ pc = "input"
    /\ TotalTests(reports) < MaxTests
    /\ AddTestFrom(NarrowTests)
    /\ pc' = pc

\* The caller hands the current report in a second time, as the only
\* previous report: [R, R].
DuplicateReport ==
    /\ pc = "input"
    /\ Len(reports) = 1
    /\ reports' = Append(reports, reports[1])
    /\ UNCHANGED <<pc, op, metricsMap, insights, reportWithInsights,
                   previousReport, baseline, previousRuns>>

\* calculateCurrentInsights(currentReport, previousReports).
calculateCurrentInsights ==
    /\ pc \in {"input", "record"}
    /\ Len(reports) > 0
    /\ metricsMap' = aggregateTestMetricsAcrossReports(reports)
    /\ insights' = IF metricsMap' = TypeError THEN TypeError
                   ELSE calculateCurrentInsightsOf(reports)
    /\ pc' = "done"
    /\ op' = "calculateCurrentInsights"
    /\ UNCHANGED <<reports, reportWithInsights, previousReport, baseline,
                   previousRuns>>

\* addTestInsightsToCurrentReport(currentReport, previousReports).
addTestInsightsToCurrentReport ==
    /\ pc = "input"
    /\ Len(reports) > 0
    /\ reportWithInsights' =
         addTestInsightsToCurrentReportOf(Head(reports), Tail(reports))
    /\ reports' = ReportsAfterAttach(reports)
    /\ pc' = "done"
    /\ op' = "addTestInsightsToCurrentReport"
    /\ UNCHANGED <<metricsMap, insights, previousReport, baseline, previousRuns>>

Next ==
    \/ AddReport
    \/ AddTest
    \/ DuplicateReport
    \/ calculateCurrentInsights
    \/ addTestInsightsToCurrentReport

Spec == Init /\ [][Next]_vars

-----------------------------------------------------------------------------
(* Claims about the aggregation of a report list (checked under Spec).     *)

\* calculateCurrentInsights has returned.
Composed == pc = "done" /\ op = "calculateCurrentInsights"

\* addTestInsightsToCurrentReport has returned.
Attached == pc = "done" /\ op = "addTestInsightsToCurrentReport"

\* A report whose results.tests is missing or not a list, in the spec's words.
Malformed(report) == report.shape \in {"noTests", "testsNotArray"}

\* The records of the reports that are not malformed, in list order.
RECURSIVE RecordsOf(_)
RecordsOf(rs) ==
    IF rs = <<>> THEN <<>>
    ELSE (IF Malformed(Head(rs)) THEN <<>> ELSE Head(rs).tests) \o RecordsOf(Tail(rs))

\* The sum of f over the records of the given name.
SumRecords(records, name, f(_)) ==
    SumSeq([i \in 1 .. Len(records) |->
               IF records[i].name = name THEN f(records[i]) ELSE 0])

RetriesOf(test) == IF Has(test, "retries") THEN test.retries ELSE 0

One(test) == 1
AttemptsOf(test) == 1 + RetriesOf(test)
DurationOf(test) == test.duration

InPercentRange(metric) == metric.current >= 0 /\ metric.current <= 100000

\* C2: the run-level flakyRate, failRate and skippedRate of
\* calculateCurrentInsights and the test-level ones attached by
\* addTestInsightsToCurrentReport lie in [0, 100], for every report list.
C2_RatesWithinPercentRange ==
    /\ Composed =>
          /\ InPercentRange(insights.flakyRate)
          /\ InPercentRange(insights.failRate)
          /\ InPercentRange(insights.skippedRate)
    /\ (Attached /\ ~Malformed(reports[1])) =>
          \A i \in 1 .. Len(reportWithInsights.tests) :
              LET test == reportWithInsights.tests[i]
              IN  /\ Has(test, "insights")
                  /\ InPercentRange(test.insights.flakyRate)
                  /\ InPercentRange(test.insights.failRate)
                  /\ InPercentRange(test.insights.skippedRate)

\* C2's case: a run with retried failures and a flaky pass, whose rates are
\* strictly inside the range.
C2_Witness ==
    /\ Composed
    /\ insights.extra.totalAttemptsFailed > insights.extra.totalResults
    /\ insights.flakyRate.current > 0
    /\ insights.flakyRate.current < 100000
    /\ insights.failRate.current > 0
    /\ insights.failRate.current < 100000

\* The reports that are not malformed and hold the name at least once.
RunsWith(name) ==
    { i \in 1 .. Len(reports) :
        /\ ~Malformed(reports[i])
        /\ \E j \in 1 .. Len(reports[i].tests) : reports[i].tests[j].name = name }

\* C5: appearsInRuns of a name is the number of valid reports that hold the
\* name at least once (a name in no valid report is not in the Map).
C5_AppearsInRunsCountsReports ==
    Composed =>
        \A name \in Names :
            IF name \in DOMAIN metricsMap
            THEN metricsMap[name].appearsInRuns = Cardinality(RunsWith(name))
            ELSE RunsWith(name) = {}

\* C5's case: name a twice in one report and once in another, name b in one.
C5_Witness ==
    /\ Composed
    /\ Len(reports) = 2
    /\ Len(reports[1].tests) = 2
    /\ reports[1].tests[1].name = "a" /\ reports[1].tests[2].name = "a"
    /\ Len(reports[2].tests) = 1 /\ reports[2].tests[1].name = "a"
    /\ metricsMap["a"].appearsInRuns = 2
    /\ metricsMap["a"].totalResults = 3

\* C6: for a valid report R, the Map of [R, R] has, for every name of R,
\* twice the totalResults, totalAttempts and totalResultsDuration of the Map
\* of [R], and appearsInRuns = 2.
C6_DuplicatedReportDoubles ==
    (/\ Composed /\ Len(reports) = 2
     /\ reports[1] = reports[2] /\ ~Malformed(reports[1])) =>
        LET single == AggregateFrom(EmptyMap, <<reports[1]>>)
        IN  /\ DOMAIN metricsMap = DOMAIN single
            /\ DOMAIN single = testsInThisReport(reports[1])
            /\ \A n \in DOMAIN single :
                  /\ metricsMap[n].totalResults = 2 * single[n].totalResults
                  /\ metricsMap[n].totalAttempts = 2 * single[n].totalAttempts
                  /\ metricsMap[n].totalResultsDuration =
                        2 * single[n].totalResultsDuration
                  /\ single[n].appearsInRuns = 1
                  /\ metricsMap[n].appearsInRuns = 2

\* C6's case: R holds name a twice (once retried) and name b once.
C6_Witness ==
    /\ Composed
    /\ Len(reports) = 2
    /\ reports[1] = reports[2]
    /\ Len(reports[1].tests) = 3
    /\ reports[1].tests[1] = MkTest("a", "passed", 100, Absent, "absent")
    /\ reports[1].tests[2] = MkTest("a", "failed", 120, 1, "absent")
    /\ reports[1].tests[3].name = "b"
    /\ metricsMap["a"].totalResults = 4
    /\ metricsMap["a"].totalAttempts = 6
    /\ metricsMap["a"].totalResultsDuration = 440
    /\ metricsMap["a"].appearsInRuns = 2

\* The spec's scenario (section 8).
Report1 ==
    MkReport("ok", << MkTest("a", "passed", 100, Absent, "absent"),
                      MkTest("b", "failed", 50, Absent, "absent") >>, DefaultSummary)
Report2 ==
    MkReport("ok", << MkTest("a", "failed", 120, 1, "absent") >>, DefaultSummary)

\* C8: for every name, totalResults is the number of records of that name
\* over the valid reports, totalAttempts the sum of 1 + retries (absent
\* retries = 0) and totalResultsDuration the sum of the durations; on
\* [Report1, Report2] test a gets totalResults 2, failed 1, passed 1,
\* totalAttempts 3, duration 220, appearsInRuns 2 and the fail rate is 66.67.
C8_CountersAreSumsOverRecords ==
    Composed =>
        /\ \A name \in Names :
              LET records == RecordsOf(reports)
              IN  IF name \in DOMAIN metricsMap
                  THEN /\ metricsMap[name].totalResults = SumRecords(records, name, One)
                       /\ metricsMap[name].totalAttempts =
                             SumRecords(records, name, AttemptsOf)
                       /\ metricsMap[name].totalResultsDuration =
                             SumRecords(records, name, DurationOf)
                  ELSE SumRecords(records, name, One) = 0
        /\ reports = <<Report1, Report2>> =>
              /\ metricsMap["a"].totalResults = 2
              /\ metricsMap["a"].totalResultsFailed = 1
              /\ metricsMap["a"].totalResultsPassed = 1
              /\ metricsMap["a"].totalAttempts = 3
              /\ metricsMap["a"].totalResultsDuration = 220
              /\ metricsMap["a"].appearsInRuns = 2
              /\ insights.failRate.current = 66670

\* C8's case: the scenario itself.
C8_Witness ==
    /\ Composed
    /\ reports = <<Report1, Report2>>
    /\ insights.extra.totalResults = 3
    /\ insights.extra.totalResultsFailed = 2

-----------------------------------------------------------------------------
(* The engine on a list of whole reports, malformed ones among them.       *)

\* The reports the caller hands in: one of each malformed shape, a valid
\* report without tests, and valid reports of one or two records.
WholeReports ==
    { MkReport("noTests", <<>>, DefaultSummary),
      MkReport("testsNotArray", <<>>, DefaultSummary),
      MkReport("ok", <<>>, DefaultSummary),
      MkReport("ok", << MkTest("a", "passed", 100, Absent, "absent") >>,
               DefaultSummary),
      MkReport("ok", << MkTest("a", "failed", 120, 1, "absent") >>,
               DefaultSummary),
      MkReport("ok", << MkTest("b", "passed", 100, 2, "absent") >>,
               DefaultSummary),
      MkReport("ok", << MkTest("a", "passed", 100, Absent, "absent"),
                        MkTest("b", "failed", 50, Absent, "absent") >>,
               DefaultSummary) }

\* The caller appends a whole report.
AddWholeReport ==
    /\ pc = "input"
    /\ Len(reports) < MaxWholeReports
    /\ \E report \in WholeReports : reports' = Append(reports, report)
    /\ UNCHANGED <<pc, op, metricsMap, insights, reportWithInsights,
                   previousReport, baseline, previousRuns>>

NextWhole ==
    \/ AddWholeReport
    \/ calculateCurrentInsights
    \/ addTestInsightsToCurrentReport

SpecWhole == Init /\ [][NextWhole]_vars

-----------------------------------------------------------------------------
(* Claims about malformed reports and the order of the list (checked under *)
(* SpecWhole).                                                             *)

\* C4: a report whose results.tests is missing or not a list is skipped: the
\* Map of a report list is the Map of the list without its malformed reports,
\* and no error is raised.
WithoutMalformed(rs) == SelectSeq(rs, LAMBDA r : ~Malformed(r))

C4_MalformedReportsSkipped ==
    Composed =>
        /\ metricsMap # TypeError
        /\ metricsMap =
              AggregateFrom(EmptyMap, WithoutMalformed(reports))

\* C4's case: a list with a report of each malformed shape around a valid
\* report with tests.
C4_Witness ==
    /\ Composed
    /\ Len(reports) = 3
    /\ reports[1].shape = "noTests"
    /\ reports[2].shape = "ok" /\ Len(reports[2].tests) = 2
    /\ reports[3].shape = "testsNotArray"
    /\ metricsMap # EmptyMap

\* The permutations of 1 .. n.
PermutationsOf(n) ==
    { p \in [1 .. n -> 1 .. n] : \A i, j \in 1 .. n : p[i] = p[j] => i = j }

Permuted(rs, p) == [i \in 1 .. Len(rs) |-> rs[p[i]]]

\* C9: the Map (appearsInRuns included) and the snapshot derived from it are
\* the same for every order of the report list.
C9_OrderIndependent ==
    Composed =>
        \A p \in PermutationsOf(Len(reports)) :
            LET map == AggregateFrom(EmptyMap, Permuted(reports, p))
            IN  /\ map = metricsMap
                /\ InsightsOf(consolidateTestMetricsToRunMetrics(map), Len(reports))
                      = insights

\* C9's case: three different reports, the current one sharing a name with
\* one previous report only, and a name held by two of the three.
C9_Witness ==
    /\ Composed
    /\ Len(reports) = 3
    /\ \A i \in 1 .. 3 : Len(reports[i].tests) = 1
    /\ reports[1].tests[1] = MkTest("a", "failed", 120, 1, "absent")
    /\ reports[2].tests[1] = MkTest("b", "passed", 100, 2, "absent")
    /\ reports[3].tests[1] = MkTest("a", "passed", 100, Absent, "absent")
    /\ metricsMap["a"].appearsInRuns = 2
    /\ metricsMap["b"].appearsInRuns = 1

-----------------------------------------------------------------------------
(* The engine on a short list of reports whose last test is any record of  *)
(* WideTests.                                                              *)

StartReport ==
    /\ Len(reports) <= MaxPrefixTests
    /\ AddReportFrom({"ok"}, {DefaultSummary})

AddPrefixTest ==
    /\ pc = "input"
    /\ TotalTests(reports) < MaxPrefixTests
    /\ AddTestFrom(NarrowTests)
    /\ pc' = pc

AddWideTest ==
    /\ pc = "input"
    /\ AddTestFrom(WideTests)
    /\ pc' = "record"

NextRecord ==
    \/ StartReport
    \/ AddPrefixTest
    \/ AddWideTest
    \/ calculateCurrentInsights

SpecRecord == Init /\ [][NextRecord]_vars

-----------------------------------------------------------------------------
(* Claims about one test record (checked under SpecRecord).                *)

LastReport == reports[Len(reports)]

\* The record the loop processed last.
TheRecord == LastReport.tests[Len(LastReport.tests)]

\* The aggregation has run and its last pass was over a test record.
RecordProcessed ==
    /\ pc = "done"
    /\ op = "calculateCurrentInsights"
    /\ LastReport.shape = "ok"
    /\ LastReport.tests # <<>>

\* The Map as it was before the loop came to TheRecord.
MapBeforeRecord ==
    ProcessTests(
        aggregateTestMetricsAcrossReports(SubSeq(reports, 1, Len(reports) - 1)),
        SubSeq(LastReport.tests, 1, Len(LastReport.tests) - 1))

CounterBefore(name, field) ==
    IF name \in DOMAIN MapBeforeRecord THEN MapBeforeRecord[name][field] ELSE 0

\* What processing TheRecord added to a counter of its name.
Increment(field) ==
    metricsMap[TheRecord.name][field] - CounterBefore(TheRecord.name, field)

\* The flakiness predicate as the spec words it (section 4.2).
FlakyPerSpec(test) ==
    \/ Has(test, "flaky") /\ test.flaky = TRUE
    \/ RetriesOf(test) > 0 /\ test.status = "passed"

\* C1: a test record adds exactly 1 to totalResultsFlaky of its name if and
\* only if its flaky flag is true or (retries > 0 and status = passed), and 0
\* otherwise, whatever its status bucket; a record passed / retries 2 / no
\* flag counts as flaky and not as failed, a record failed / retries 3 / no
\* flag counts as failed and not as flaky; no other name's counter moves.
C1_FlakyIffFlagOrRetriedPass ==
    RecordProcessed =>
        /\ Increment("totalResultsFlaky") = (IF FlakyPerSpec(TheRecord) THEN 1 ELSE 0)
        /\ (/\ TheRecord.status = "passed" /\ RetriesOf(TheRecord) = 2
             /\ ~Has(TheRecord, "flaky"))
              => /\ Increment("totalResultsFlaky") = 1
                 /\ Increment("totalResultsFailed") = 0
        /\ (/\ TheRecord.status = "failed" /\ RetriesOf(TheRecord) = 3
             /\ ~Has(TheRecord, "flaky"))
              => /\ Increment("totalResultsFailed") = 1
                 /\ Increment("totalResultsFlaky") = 0
        /\ \A n \in DOMAIN metricsMap \ {TheRecord.name} :
              metricsMap[n].totalResultsFlaky = CounterBefore(n, "totalResultsFlaky")

\* C1's case: after a test of the same name, a record passed / retries 2 / no
\* flag was processed and raised the flaky counter, and not the failed one.
C1_Witness ==
    /\ RecordProcessed
    /\ TotalTests(reports) = 2
    /\ TheRecord = MkTest("a", "passed", 100, 2, "absent")
    /\ CounterBefore("a", "totalResults") = 1
    /\ Increment("totalResultsFlaky") = 1
    /\ Increment("totalResultsFailed") = 0

\* C7: each test record adds 1 to exactly one of totalResultsFailed,
\* totalResultsPassed, totalResultsSkipped (skipped, pending and other go to
\* the skipped bucket), so every name of the Map has
\* totalResults = totalResultsFailed + totalResultsPassed + totalResultsSkipped.
C7_ExactlyOneBucket ==
    /\ RecordProcessed =>
        /\ Increment("totalResults") = 1
        /\ Increment("totalResultsFailed") =
              (IF TheRecord.status = "failed" THEN 1 ELSE 0)
        /\ Increment("totalResultsPassed") =
              (IF TheRecord.status = "passed" THEN 1 ELSE 0)
        /\ Increment("totalResultsSkipped") =
              (IF TheRecord.status \in {"skipped", "pending", "other"} THEN 1 ELSE 0)
    /\ pc = "done" =>
        \A n \in DOMAIN metricsMap :
            metricsMap[n].totalResults =
                metricsMap[n].totalResultsFailed + metricsMap[n].totalResultsPassed
                    + metricsMap[n].totalResultsSkipped

\* C7's case: a record of status other was processed in a second report,
\* after a failed record of the same name, and went to the skipped bucket.
C7_Witness ==
    /\ RecordProcessed
    /\ Len(reports) = 2
    /\ TheRecord.status = "other"
    /\ TheRecord.name = "b"
    /\ CounterBefore("b", "totalResultsFailed") = 1
    /\ metricsMap["b"].totalResultsSkipped = 1
    /\ metricsMap["b"].totalResults = 2

-----------------------------------------------------------------------------
(* Both engines on reports whose summaries differ.                         *)

\* A run of four seconds, a run whose start is 0 and a run that stops when
\* it starts.
Summaries == {MkSummary(1000, 5000), MkSummary(0, 4000), MkSummary(2000, 2000)}

RunTests ==
    { MkTest("a", "failed", 120, 1, "absent"),
      MkTest("b", "passed", 100, 2, "absent") }

AddRunReport ==
    /\ Len(reports) < MaxReports
    /\ AddReportFrom(Shapes, Summaries)

AddRunTest ==
    /\ pc = "input"
    /\ TotalTests(reports) < MaxRunTests
    /\ AddTestFrom(RunTests)
    /\ pc' = pc

\* calculateCurrentInsights(currentReport, previousReports) of insights.ts.
calculateCurrentInsights_ctrf ==
    /\ pc = "input"
    /\ Len(reports) > 0
    /\ metricsMap' = aggregateTestMetricsAcrossReports_ctrf(reports)
    /\ insights' = IF metricsMap' = TypeError THEN TypeError
                   ELSE calculateCurrentInsightsOf_ctrf(reports)
    /\ pc' = "done"
    /\ op' = "calculateCurrentInsights_ctrf"
    /\ UNCHANGED <<reports, reportWithInsights, previousReport, baseline,
                   previousRuns>>

\* A call of a single-metric composer on [currentReport, ...previousReports].
CallComposer(name, result) ==
    /\ pc = "input"
    /\ Len(reports) > 0
    /\ insights' = result
    /\ pc' = "done"
    /\ op' = name
    /\ UNCHANGED <<reports, metricsMap, reportWithInsights, previousReport,
                   baseline, previousRuns>>

calculateFlakyRateInsight ==
    CallComposer("calculateFlakyRateInsight", calculateFlakyRateInsightOf(reports))

calculateFlakyRateInsight_ctrf ==
    CallComposer("calculateFlakyRateInsight_ctrf",
                 calculateFlakyRateInsightOf_ctrf(reports))

calculateFailRateInsight ==
    CallComposer("calculateFailRateInsight", calculateFailRateInsightOf(reports))

calculateFailRateInsight_ctrf ==
    CallComposer("calculateFailRateInsight_ctrf",
                 calculateFailRateInsightOf_ctrf(reports))

calculateSkippedRateInsight ==
    CallComposer("calculateSkippedRateInsight", calculateSkippedRateInsightOf(reports))

calculateSkippedRateInsight_ctrf ==
    CallComposer("calculateSkippedRateInsight_ctrf",
                 calculateSkippedRateInsightOf_ctrf(reports))

calculateAverageTestDurationInsight ==
    CallComposer("calculateAverageTestDurationInsight", calculateAverageTestDurationInsightOf(reports))

calculateAverageTestDurationInsight_ctrf ==
    CallComposer("calculateAverageTestDurationInsight_ctrf",
                 calculateAverageTestDurationInsightOf_ctrf(reports))

calculateAverageRunDurationInsight ==
    CallComposer("calculateAverageRunDurationInsight", calculateAverageRunDurationInsightOf(reports))

calculateAverageRunDurationInsight_ctrf ==
    CallComposer("calculateAverageRunDurationInsight_ctrf",
                 calculateAverageRunDurationInsightOf_ctrf(reports))

NextEngines ==
    \/ AddRunReport
    \/ AddRunTest
    \/ calculateCurrentInsights
    \/ calculateCurrentInsights_ctrf
    \/ addTestInsightsToCurrentReport
    \/ calculateFlakyRateInsight
    \/ calculateFlakyRateInsight_ctrf
    \/ calculateFailRateInsight
    \/ calculateFailRateInsight_ctrf
    \/ calculateSkippedRateInsight
    \/ calculateSkippedRateInsight_ctrf
    \/ calculateAverageTestDurationInsight
    \/ calculateAverageTestDurationInsight_ctrf
    \/ calculateAverageRunDurationInsight
    \/ calculateAverageRunDurationInsight_ctrf

SpecEngines == Init /\ [][NextEngines]_vars

-----------------------------------------------------------------------------
(* Claims about both engines (checked under SpecEngines).                  *)

\* calculateCurrentInsights of insights.ts has returned.
ComposedCtrf == pc = "done" /\ op = "calculateCurrentInsights_ctrf"

MetricNames ==
    {"flakyRate", "failRate", "skippedRate", "averageTestDuration",
     "averageRunDuration"}

\* Every metric of the snapshot is a finite number.
AllFinite(snapshot) ==
    /\ snapshot # TypeError
    /\ \A m \in MetricNames : snapshot[m].current \notin {NaN, Infinity}

\* The reports whose run duration insights.ts counts.
RunsWithDuration ==
    { i \in 1 .. Len(reports) :
        ~Malformed(reports[i]) /\ HasRunDuration(reports[i].summary) }

\* C3: no snapshot of either engine holds the result of a division by zero:
\* with totalAttempts = 0 the flaky rate is 0, with totalResults = 0 the fail
\* rate, the skipped rate and the average test duration are 0, and with a
\* zero denominator (no test name in the engine of part_001, no report with a
\* run duration in the engine of insights.ts) the average run duration is 0.
C3_ZeroDenominatorsGiveZero ==
    LET records       == RecordsOf(reports)
        totalResults  == Len(records)
        totalAttempts == SumSeq([i \in 1 .. Len(records) |-> AttemptsOf(records[i])])
    IN  /\ (Composed \/ ComposedCtrf) =>
              /\ AllFinite(insights)
              /\ totalAttempts = 0 => insights.flakyRate.current = 0
              /\ totalResults = 0 =>
                    /\ insights.failRate.current = 0
                    /\ insights.skippedRate.current = 0
                    /\ insights.averageTestDuration.current = 0
        /\ Composed =>
              /\ insights.extra.totalAttempts = totalAttempts
              /\ insights.extra.totalResults = totalResults
              /\ Cardinality(DOMAIN metricsMap) = 0 =>
                    insights.averageRunDuration.current = 0
        /\ ComposedCtrf =>
              (RunsWithDuration = {} => insights.averageRunDuration.current = 0)

\* C3's case: a list of a malformed report and a valid report without tests,
\* every denominator 0 and every metric of the snapshot 0.
C3_Witness ==
    /\ Composed
    /\ Len(reports) = 2
    /\ Malformed(reports[1])
    /\ reports[2].shape = "ok" /\ reports[2].tests = <<>>
    /\ insights.extra.totalAttempts = 0
    /\ insights.extra.totalResults = 0
    /\ \A m \in MetricNames : insights[m].current = 0

-----------------------------------------------------------------------------
(* calculateReportInsightsBaseline (part_001, lines 671-712).              *)

\* The value of currentReport.insights when the report has none.
Undefined == [undefined |-> TRUE]

\* A metric of the baseline with the change left unrounded.
BaselineMetric_Unrounded(currentMetric, previousMetric) ==
    [current  |-> currentMetric.current,
     previous |-> previousMetric.current,
     change   |-> currentMetric.current - previousMetric.current]

\* A metric of the baseline with the change taken the other way round.
BaselineMetric_Reversed(currentMetric, previousMetric) ==
    [current  |-> currentMetric.current,
     previous |-> previousMetric.current,
     change   |-> DiffToFixed2(previousMetric.current, currentMetric.current)]

\* One metric of the returned Insights (lines 684-688, and the same for the
\* four other metrics).
BaselineMetric(currentMetric, previousMetric) ==
    [current  |-> currentMetric.current,
     previous |-> previousMetric.current,
     change   |-> DiffToFixed2(currentMetric.current, previousMetric.current)]

\* The Insights returned when both snapshots are there (lines 683-711).
BaselineOf(currentInsights, previousInsights) ==
    [flakyRate |->
         BaselineMetric(currentInsights.flakyRate, previousInsights.flakyRate),
     failRate |->
         BaselineMetric(currentInsights.failRate, previousInsights.failRate),
     skippedRate |->
         BaselineMetric(currentInsights.skippedRate, previousInsights.skippedRate),
     averageTestDuration |->
         BaselineMetric(currentInsights.averageTestDuration,
                        previousInsights.averageTestDuration),
     averageRunDuration |->
         BaselineMetric(currentInsights.averageRunDuration,
                        previousInsights.averageRunDuration),
     reportsAnalyzed |-> currentInsights.reportsAnalyzed,
     extra |-> currentInsights.extra]

\* The differ testing the current snapshot only: reading a metric of the
\* missing previous snapshot raises.
calculateReportInsightsBaselineOf_CurrentOnlyGuard(currentReport, previous) ==
    IF ~Has(currentReport, "insights") THEN Undefined
    ELSE IF ~Has(previous, "insights") THEN TypeError
    ELSE BaselineOf(currentReport.insights, previous.insights)

calculateReportInsightsBaselineOf(currentReport, previous) ==
    IF ~Has(currentReport, "insights") \/ ~Has(previous, "insights")
    THEN (IF Has(currentReport, "insights") THEN currentReport.insights
          ELSE Undefined)
    ELSE BaselineOf(currentReport.insights, previous.insights)

-----------------------------------------------------------------------------
(* The differ on two reports that may carry a snapshot.                    *)

\* Metric values of the snapshots, in thousandths: 10, 4, 0.125, 0 and 2.5.
\* All are multiples of 0.125, so every difference is exact in binary.
SnapshotValues == <<10000, 4000, 125, 0, 2500>>

\* The value the snapshot of the given rotation holds for the k-th metric.
ValueAt(rotation, k) == SnapshotValues[((k - 1 + rotation) % 5) + 1]

\* A snapshot as calculateCurrentInsights leaves it (previous and change 0),
\* or as an earlier baseline left it (previous 2, change current - 2).
MkSnapshot(rotation, diffed) ==
    LET metric(k) ==
            IF diffed
            THEN [current |-> ValueAt(rotation, k), previous |-> 2000,
                  change |-> DiffToFixed2(ValueAt(rotation, k), 2000)]
            ELSE Metric(ValueAt(rotation, k))
    IN  [flakyRate           |-> metric(1),
         failRate            |-> metric(2),
         skippedRate         |-> metric(3),
         averageTestDuration |-> metric(4),
         averageRunDuration  |-> metric(5),
         reportsAnalyzed     |-> 3 + rotation,
         extra               |-> [totalResults |-> 7 + rotation]]

Snapshots == { MkSnapshot(r, d) : r \in 0 .. 4, d \in BOOLEAN }

\* The reports handed to the differ: with or without tests, with or without
\* a snapshot.
SnapshotReports ==
    LET bare == { MkReport("ok", tests, DefaultSummary) :
                    tests \in { <<>>, << MkTest("a", "failed", 120, 1, "absent") >> } }
    IN  bare \cup { ("insights" :> snapshot) @@ report :
                      snapshot \in Snapshots, report \in bare }

ReceiveCurrent ==
    /\ pc = "input"
    /\ reports = <<>>
    /\ \E report \in SnapshotReports : reports' = <<report>>
    /\ pc' = "pair"
    /\ UNCHANGED <<op, metricsMap, insights, reportWithInsights,
                   previousReport, baseline, previousRuns>>

ReceivePrevious ==
    /\ pc = "pair"
    /\ Len(reports) = 1
    /\ previousReport = NoValue
    /\ \E report \in SnapshotReports : previousReport' = report
    /\ UNCHANGED <<reports, pc, op, metricsMap, insights, reportWithInsights,
                   baseline, previousRuns>>

\* calculateReportInsightsBaseline(currentReport, previousReport).
calculateReportInsightsBaseline ==
    /\ pc = "pair"
    /\ Len(reports) = 1
    /\ previousReport # NoValue
    /\ baseline' = calculateReportInsightsBaselineOf(reports[1], previousReport)
    /\ pc' = "done"
    /\ op' = "calculateReportInsightsBaseline"
    /\ UNCHANGED <<reports, metricsMap, insights, reportWithInsights,
                   previousReport, previousRuns>>

NextBaseline ==
    \/ ReceiveCurrent
    \/ ReceivePrevious
    \/ calculateReportInsightsBaseline

SpecBaseline == Init /\ [][NextBaseline]_vars

-----------------------------------------------------------------------------
(* Claims about the differ (checked under SpecBaseline).                   *)

\* calculateReportInsightsBaseline has returned.
Diffed == pc = "done" /\ op = "calculateReportInsightsBaseline"

\* x rounded to the nearest hundredth, x in thousandths, a tie going away
\* from zero.
Round2(x) ==
    LET hundredths == (Abs(x) + 5) \div 10
    IN  IF x < 0 THEN -(10 * hundredths) ELSE 10 * hundredths

\* C10: when both reports carry a snapshot, each of the five metrics of the
\* baseline has current = the current snapshot's current, previous = the
\* previous snapshot's current and change = current - previous rounded to 2
\* decimals (flakyRate 10 against 4: current 10, previous 4, change 6); the
\* tests of the reports are not aggregated: the Map stays empty.
C10_BaselineIsDifferenceOfSnapshots ==
    (Diffed /\ Has(reports[1], "insights") /\ Has(previousReport, "insights")) =>
        /\ \A m \in MetricNames :
              /\ baseline[m].current = reports[1].insights[m].current
              /\ baseline[m].previous = previousReport.insights[m].current
              /\ baseline[m].change =
                    Round2(reports[1].insights[m].current
                             - previousReport.insights[m].current)
        /\ (/\ reports[1].insights.flakyRate.current = 10000
             /\ previousReport.insights.flakyRate.current = 4000)
              => baseline.flakyRate = [current |-> 10000, previous |-> 4000,
                                       change |-> 6000]
        /\ metricsMap = EmptyMap

\* C10's case: flakyRate 10 against 4, both reports with tests, the previous
\* snapshot itself a baseline, and a metric whose change is rounded (0.125
\* against 0 gives 0.13).
C10_Witness ==
    /\ Diffed
    /\ reports[1].tests # <<>> /\ previousReport.tests # <<>>
    /\ Has(reports[1], "insights") /\ Has(previousReport, "insights")
    /\ reports[1].insights.flakyRate.current = 10000
    /\ previousReport.insights.flakyRate = [current |-> 4000, previous |-> 2000,
                                            change |-> 2000]
    /\ baseline.flakyRate = [current |-> 10000, previous |-> 4000, change |-> 6000]
    /\ \E m \in MetricNames :
          /\ reports[1].insights[m].current = 125
          /\ previousReport.insights[m].current = 0
          /\ baseline[m].change = 130

\* C11: when the current or the previous report has no snapshot, the differ
\* raises nothing and returns currentReport.insights as it is: the current
\* snapshot with every metric unaltered (previous and change 0 when it came
\* from the composer), or undefined when the current report has none.
C11_MissingSnapshotReturnsCurrent ==
    (Diffed /\ (~Has(reports[1], "insights") \/ ~Has(previousReport, "insights"))) =>
        /\ baseline # TypeError
        /\ Has(reports[1], "insights") =>
              /\ baseline = reports[1].insights
              /\ (\A m \in MetricNames :
                     reports[1].insights[m] = Metric(reports[1].insights[m].current))
                    => \A m \in MetricNames :
                          baseline[m].previous = 0 /\ baseline[m].change = 0
        /\ ~Has(reports[1], "insights") => baseline = Undefined

\* C11's case: the current report carries a composer's snapshot, the previous
\* report (with tests) carries none, and the snapshot comes back as it is.
C11_Witness ==
    /\ Diffed
    /\ Has(reports[1], "insights")
    /\ ~Has(previousReport, "insights")
    /\ previousReport.tests # <<>>
    /\ reports[1].insights.flakyRate = Metric(10000)
    /\ baseline = reports[1].insights
    /\ baseline.flakyRate = [current |-> 10000, previous |-> 0, change |-> 0]

-----------------------------------------------------------------------------
(* Claims about the triples of the composers (checked under SpecEngines).  *)

NoHistory(metric) == metric.previous = 0 /\ metric.change = 0

SnapshotComposers == {"calculateCurrentInsights", "calculateCurrentInsights_ctrf"}

MetricComposers ==
    { "calculateFlakyRateInsight", "calculateFailRateInsight",
      "calculateSkippedRateInsight", "calculateAverageTestDurationInsight",
      "calculateAverageRunDurationInsight",
      "calculateFlakyRateInsight_ctrf", "calculateFailRateInsight_ctrf",
      "calculateSkippedRateInsight_ctrf",
      "calculateAverageTestDurationInsight_ctrf",
      "calculateAverageRunDurationInsight_ctrf" }

TestMetricNames == {"flakyRate", "failRate", "skippedRate", "averageTestDuration"}

\* C12: every metric a composer returns (calculateCurrentInsights of either
\* engine, the single-metric composers, the test-level metrics attached by
\* addTestInsightsToCurrentReport) has previous = 0 and change = 0.
C12_ComposersLeaveNoHistory ==
    pc = "done" =>
        /\ op \in SnapshotComposers =>
              \A m \in MetricNames : NoHistory(insights[m])
        /\ op \in MetricComposers => NoHistory(insights)
        /\ (Attached /\ ~Malformed(reports[1])) =>
              \A i \in 1 .. Len(reportWithInsights.tests) :
                  /\ Has(reportWithInsights.tests[i], "insights")
                  /\ \A m \in TestMetricNames :
                        NoHistory(reportWithInsights.tests[i].insights[m])

\* C12's case: a test-level fail rate of 100 attached with no history.
C12_Witness ==
    /\ Attached
    /\ Len(reports) = 2
    /\ Len(reportWithInsights.tests) = 1
    /\ reportWithInsights.tests[1].name = "a"
    /\ reportWithInsights.tests[1].insights.failRate =
          [current |-> 100000, previous |-> 0, change |-> 0]

-----------------------------------------------------------------------------
(* extractPreviousRunsData (part_002, lines 42-74).                        *)

\* results.summary with the totals the extractor reads.
MkRunSummary(start, stop, passed, failed, skipped) ==
    [passed |-> passed, failed |-> failed, skipped |-> skipped]
        @@ MkSummary(start, stop)

\* A report with results.environment.
WithEnvironment(report, environment) == ("environment" :> environment) @@ report

\* environment?.buildNumber is a string that is not empty.
HasBuildNumber(report) ==
    /\ Has(report, "environment")
    /\ Has(report.environment, "buildNumber")
    /\ report.environment.buildNumber # ""

\* RunId counting the positions from 1.
RunId_OneBased(report, index) ==
    IF HasBuildNumber(report) THEN report.environment.buildNumber
    ELSE ToString(report.summary.start) \o "_" \o ToString(index + 1)

\* environment?.buildNumber || `${summary.start}_${index}` (line 59).
RunId(report, index) ==
    IF HasBuildNumber(report) THEN report.environment.buildNumber
    ELSE ToString(report.summary.start) \o "_" \o ToString(index)

\* RunStatus that takes any failure for a failed run.
RunStatus_AnyFailureFails(summary) ==
    IF summary.failed > 0 THEN "failed" ELSE "passed"

\* The overall status (lines 54-57).
RunStatus(summary) ==
    IF summary.failed > 0
    THEN (IF summary.passed > 0 THEN "mixed" ELSE "failed")
    ELSE "passed"

\* results.tests.filter(test => test.flaky === true).length (line 48).
flakyCount(tests) ==
    Cardinality({ i \in 1 .. Len(tests) :
                    Has(tests[i], "flaky") /\ tests[i].flaky = TRUE })

\* The optional fields of environment that are set, under their names.
EnvironmentFields(report) ==
    IF Has(report, "environment")
    THEN [f \in DOMAIN report.environment \cap {"buildUrl", "buildNumber"} |->
             report.environment[f]]
    ELSE [f \in {} |-> ""]

\* The callback of reports.map (lines 43-73): reading summary of a missing
\* results, or filter of tests that are missing or no list, raises.
ExtractRun(report, index) ==
    IF report.shape # "ok" THEN TypeError
    ELSE LET summary == report.summary
         IN  EnvironmentFields(report) @@
             [id       |-> RunId(report, index),
              date     |-> summary.start,
              status   |-> RunStatus(summary),
              passed   |-> summary.passed,
              failed   |-> summary.failed,
              skipped  |-> summary.skipped,
              flaky    |-> flakyCount(report.tests),
              duration |-> summary.stop - summary.start]

\* A callback of reports.map raises, and with it the call.
extractPreviousRunsDataRaises(rs) ==
    \E i \in 1 .. Len(rs) : ExtractRun(rs[i], i - 1) = TypeError

\* The list reports.map returns when no callback raises.
extractPreviousRunsDataOf(rs) ==
    [i \in 1 .. Len(rs) |-> ExtractRun(rs[i], i - 1)]

-----------------------------------------------------------------------------
(* The extractor on a list of historical reports.                          *)

\* The example of the spec, a mixed run with a build URL and one test
\* flagged flaky, a failed run with a build number, a passed run without
\* tests, a run of one skipped test whose build number is the empty string,
\* and a report of each
\* shape the extractor cannot read.
HistoryReports ==
    LET flagged == MkTest("a", "passed", 100, Absent, "true")
        retried == MkTest("b", "passed", 100, 2, "absent")
        failing == MkTest("a", "failed", 120, 1, "absent")
    IN  { MkReport("ok", <<>>, MkRunSummary(1000, 5000, 5, 0, 0)),
          WithEnvironment(
              MkReport("ok", <<flagged, retried>>, MkRunSummary(1000, 5000, 3, 2, 0)),
              [buildUrl |-> "https://ci/41"]),
          WithEnvironment(
              MkReport("ok", <<failing>>, MkRunSummary(2000, 2500, 0, 2, 1)),
              [buildNumber |-> "42", buildUrl |-> "https://ci/42"]),
          WithEnvironment(
              MkReport("ok", <<>>, MkRunSummary(3000, 3600, 0, 0, 1)),
              [buildNumber |-> ""]),
          MkReport("noTests", <<>>, MkRunSummary(1000, 5000, 5, 0, 0)),
          MkReport("testsNotArray", <<>>, MkRunSummary(1000, 5000, 5, 0, 0)),
          MkReport("noResults", <<>>, MkRunSummary(0, 0, 0, 0, 0)) }

\* The caller appends a historical report.
AddHistoryReport ==
    /\ \/ pc = "input" /\ reports = <<>>
       \/ pc = "history"
    /\ Len(reports) < MaxWholeReports
    /\ \E report \in HistoryReports : reports' = Append(reports, report)
    /\ pc' = "history"
    /\ UNCHANGED <<op, metricsMap, insights, reportWithInsights,
                   previousReport, baseline, previousRuns>>

\* extractPreviousRunsData(reports).
extractPreviousRunsData ==
    /\ pc = "history"
    /\ IF extractPreviousRunsDataRaises(reports)
       THEN pc' = "raised" /\ previousRuns' = previousRuns
       ELSE pc' = "done" /\ previousRuns' = extractPreviousRunsDataOf(reports)
    /\ op' = "extractPreviousRunsData"
    /\ UNCHANGED <<reports, metricsMap, insights, reportWithInsights,
                   previousReport, baseline>>

NextHistory ==
    \/ AddHistoryReport
    \/ extractPreviousRunsData

SpecHistory == Init /\ [][NextHistory]_vars

-----------------------------------------------------------------------------
(* Every operation of the engine: the caller assembles a report list for a *)
(* composer, a pair of reports for the differ, or a list of historical     *)
(* reports for the extractor.                                              *)

NextAll == NextEngines \/ NextBaseline \/ NextHistory

SpecAll == Init /\ [][NextAll]_vars

-----------------------------------------------------------------------------
(* Claims about every triple the engine emits (checked under SpecAll).     *)

\* change = current - previous, rounded to 2 decimals.
ChangeIsDifference(metric) ==
    metric.change = Round2(metric.current - metric.previous)

\* The differ has returned a snapshot computed from two snapshots.
DiffedFromBoth ==
    Diffed /\ Has(reports[1], "insights") /\ Has(previousReport, "insights")

\* C13 as stated: every triple emitted by a composer or by the differ has
\* change = current - previous, rounded to 2 decimals.
C13_EveryTripleIsDifference ==
    pc = "done" =>
        /\ op \in SnapshotComposers =>
              \A m \in MetricNames : ChangeIsDifference(insights[m])
        /\ op \in MetricComposers => ChangeIsDifference(insights)
        /\ (Attached /\ ~Malformed(reports[1])) =>
              \A i \in 1 .. Len(reportWithInsights.tests) :
                  \A m \in TestMetricNames :
                      ChangeIsDifference(reportWithInsights.tests[i].insights[m])
        /\ DiffedFromBoth =>
              \A m \in MetricNames : ChangeIsDifference(baseline[m])

\* C13 amended: every triple the differ computes from two snapshots has
\* change = current - previous, rounded to 2 decimals; a triple of a composer
\* has change = 0 against previous = 0, so it has that property exactly when
\* its current is 0.
C13_DifferTripleIsDifference ==
    pc = "done" =>
        /\ DiffedFromBoth =>
              \A m \in MetricNames : ChangeIsDifference(baseline[m])
        /\ op \in SnapshotComposers =>
              \A m \in MetricNames :
                  ChangeIsDifference(insights[m]) <=> insights[m].current = 0
        /\ op \in MetricComposers =>
              (ChangeIsDifference(insights) <=> insights.current = 0)
        /\ (Attached /\ ~Malformed(reports[1])) =>
              \A i \in 1 .. Len(reportWithInsights.tests) :
                  \A m \in TestMetricNames :
                      LET metric == reportWithInsights.tests[i].insights[m]
                      IN  ChangeIsDifference(metric) <=> metric.current = 0

\* C13's case: the differ on 4 against 10 and on 0 against 0.125: the changes
\* are -6 and -0.13.
C13_Witness ==
    /\ DiffedFromBoth
    /\ baseline.flakyRate = [current |-> 4000, previous |-> 10000, change |-> -6000]
    /\ \E m \in MetricNames :
          baseline[m] = [current |-> 0, previous |-> 125, change |-> -130]

-----------------------------------------------------------------------------
(* Claims about every operation of the engine (checked under SpecAll).     *)

\* C14: no operation writes to its inputs: when calculateCurrentInsights,
\* addTestInsightsToCurrentReport, calculateReportInsightsBaseline or
\* extractPreviousRunsData (or a single-metric composer) returns, the current
\* report, the previous reports and their test records are as they were.
C14_InputsNotMutated ==
    [][pc' = "done" => (reports' = reports /\ previousReport' = previousReport)]_vars

\* C14's case: addTestInsightsToCurrentReport has returned a report whose
\* tests carry insights, and the tests handed in carry none.
C14_Witness ==
    /\ Attached
    /\ Len(reports) = 2
    /\ Len(reports[1].tests) = 1
    /\ Has(reportWithInsights.tests[1], "insights")
    /\ ~Has(reports[1].tests[1], "insights")
    /\ reportWithInsights.tests[1].insights.appearsInRuns = 2

-----------------------------------------------------------------------------
(* Claims about the attachment of test insights (checked under Spec).      *)

FailedOne(test) == IF test.status = "failed" THEN 1 ELSE 0

\* 100 * n / d rounded to the nearest hundredth, in thousandths (no tie can
\* occur that the two roundings would break differently).
RoundedPercent(n, d) == 10 * ((20000 * n + d) \div (2 * d))

\* C15: for a valid current report, addTestInsightsToCurrentReport returns a
\* report with the same tests in the same order, each with an insights field
\* derived from the counters of its name over [currentReport,
\* ...previousReports] and with appearsInRuns >= 1; no test is left without.
C15_EveryTestGainsInsights ==
    (Attached /\ ~Malformed(reports[1])) =>
        LET records == RecordsOf(reports)
            result  == reportWithInsights
        IN  /\ result # TypeError
            /\ result.shape = reports[1].shape
            /\ result.summary = reports[1].summary
            /\ Len(result.tests) = Len(reports[1].tests)
            /\ \A i \in 1 .. Len(result.tests) :
                  LET test  == result.tests[i]
                      given == reports[1].tests[i]
                      count == SumRecords(records, given.name, One)
                  IN  /\ DOMAIN test = DOMAIN given \cup {"insights"}
                      /\ \A f \in DOMAIN given : test[f] = given[f]
                      /\ test.insights.appearsInRuns = Cardinality(RunsWith(given.name))
                      /\ test.insights.appearsInRuns >= 1
                      /\ test.insights.extra.totalResults = count
                      /\ test.insights.extra.totalAttempts =
                            SumRecords(records, given.name, AttemptsOf)
                      /\ test.insights.failRate.current =
                            RoundedPercent(SumRecords(records, given.name, FailedOne),
                                           count)

\* C15's case: test a, passed in the current report and failed after a retry
\* in the previous one, gains a fail rate of 50 over two runs; test b beside
\* it gains its own.
C15_Witness ==
    /\ Attached
    /\ reports = <<Report1, Report2>>
    /\ reportWithInsights.tests[1].name = "a"
    /\ reportWithInsights.tests[1].insights.failRate.current = 50000
    /\ reportWithInsights.tests[1].insights.appearsInRuns = 2
    /\ reportWithInsights.tests[1].insights.extra.totalAttempts = 3
    /\ reportWithInsights.tests[2].name = "b"
    /\ reportWithInsights.tests[2].insights.failRate.current = 100000
    /\ reportWithInsights.tests[2].insights.appearsInRuns = 1

-----------------------------------------------------------------------------
(* Claims about reportsAnalyzed and the test-level rates (checked under    *)
(* Spec).                                                                  *)

\* n / d rounded to the nearest hundredth, in thousandths; 0 when d is 0.
RoundedQuotient(n, d) ==
    IF d = 0 THEN 0 ELSE 10 * ((200 * n + d) \div (2 * d))

\* The sum of the durations of all records of the valid reports.
TotalDuration ==
    LET records == RecordsOf(reports)
    IN  SumSeq([i \in 1 .. Len(records) |-> records[i].duration])

\* The reports that were folded: those that are not malformed.
FoldedReports == { i \in 1 .. Len(reports) : ~Malformed(reports[i]) }

\* C16: the run-level average run duration is totalResultsDuration divided by
\* the number of reports, not by the number of distinct test names.
C16_AverageRunDurationPerReport ==
    Composed =>
        /\ insights.extra.totalResultsDuration = TotalDuration
        /\ insights.averageRunDuration.current =
              RoundedQuotient(TotalDuration, Len(reports))

\* C17: the reportsAnalyzed of a snapshot is the denominator of that
\* snapshot's averageRunDuration, and is the number of reports folded
\* (malformed reports excluded).
C17_ReportsAnalyzedIsOneNumber ==
    Composed =>
        /\ insights.reportsAnalyzed =
              consolidateTestMetricsToRunMetrics(metricsMap).reportsAnalyzed
        /\ insights.reportsAnalyzed = Cardinality(FoldedReports)

FlakyOne(test) ==
    IF (Has(test, "flaky") /\ test.flaky = TRUE)
          \/ (RetriesOf(test) > 0 /\ test.status = "passed")
    THEN 1 ELSE 0

\* C18: the test-level flaky rate is 100 * totalResultsFlaky / totalAttempts
\* of the test, and when the reports hold one test name only, the test-level
\* flakyRate, failRate, skippedRate and average duration are the run-level
\* ones.
C18_TestRatesAreRunRates ==
    (Attached /\ ~Malformed(reports[1])) =>
        LET records == RecordsOf(reports)
            run     == calculateCurrentInsightsOf(reports)
        IN  \A i \in 1 .. Len(reportWithInsights.tests) :
                LET test == reportWithInsights.tests[i]
                IN  /\ test.insights.flakyRate.current =
                          RoundedPercent(SumRecords(records, test.name, FlakyOne),
                                         SumRecords(records, test.name, AttemptsOf))
                    /\ (\A j \in 1 .. Len(records) : records[j].name = test.name)
                          => /\ test.insights.flakyRate.current = run.flakyRate.current
                             /\ test.insights.failRate.current = run.failRate.current
                             /\ test.insights.skippedRate.current =
                                   run.skippedRate.current
                             /\ test.insights.averageTestDuration.current =
                                   run.averageTestDuration.current

-----------------------------------------------------------------------------
(* Claims about failures and the extractor (checked under SpecAll and      *)
(* SpecHistory).                                                           *)

\* C19: no operation has a fatal path: whatever the reports (results missing,
\* tests missing or no list), the composers, the attachment, the differ and
\* the extractor return a value and raise nothing.
C19_NoOperationRaises ==
    /\ pc # "raised"
    /\ pc = "done" =>
          /\ insights # TypeError
          /\ reportWithInsights # TypeError
          /\ baseline # TypeError

\* extractPreviousRunsData has returned.
Extracted == pc = "done" /\ op = "extractPreviousRunsData"

\* Every report has results with a summary and a list of tests.
AllReadable == \A i \in 1 .. Len(reports) : reports[i].shape = "ok"

\* The report names a build: a build number that is not the empty string.
NamesBuild(report) ==
    /\ Has(report, "environment")
    /\ Has(report.environment, "buildNumber")
    /\ Len(report.environment.buildNumber) > 0

SpecExampleReport == MkReport("ok", <<>>, MkRunSummary(1000, 5000, 5, 0, 0))

\* C20: on reports that have results, summary and tests, the extractor
\* returns one record per report, in order; record i has id = the build
\* number when there is one, else start_i (i counted from 0), date = start and
\* duration = stop - start (start 1000, stop 5000, no build number, position
\* 2: id 1000_2, duration 4000); after a reordering a report without build
\* number keeps its id only if it keeps its position.
C20_OneRecordPerReport ==
    (op = "extractPreviousRunsData" /\ AllReadable) =>
        /\ Extracted
        /\ Len(previousRuns) = Len(reports)
        /\ \A i \in 1 .. Len(reports) :
              LET run    == previousRuns[i]
                  report == reports[i]
              IN  /\ NamesBuild(report) => run.id = report.environment.buildNumber
                  /\ ~NamesBuild(report) =>
                        run.id = ToString(report.summary.start) \o "_" \o ToString(i - 1)
                  /\ run.date = report.summary.start
                  /\ run.duration = report.summary.stop - report.summary.start
        /\ (Len(reports) = 3 /\ reports[3] = SpecExampleReport) =>
              /\ previousRuns[3].id = "1000_2"
              /\ previousRuns[3].status = "passed"
              /\ previousRuns[3].duration = 4000
        /\ \A p \in PermutationsOf(Len(reports)) :
              LET again == extractPreviousRunsDataOf(Permuted(reports, p))
              IN  \A k \in 1 .. Len(reports) :
                      IF NamesBuild(reports[p[k]])
                      THEN again[k].id = previousRuns[p[k]].id
                      ELSE (again[k].id = previousRuns[p[k]].id) <=> (k = p[k])

\* C20's case: the example of the spec at position 2, after a run that names
\* build 42 and a run without build number.
C20_Witness ==
    /\ Extracted
    /\ Len(reports) = 3
    /\ reports[3] = SpecExampleReport
    /\ previousRuns[1].id = "42"
    /\ previousRuns[2].id = "1000_1"
    /\ previousRuns[2].status = "mixed"
    /\ previousRuns[2].flaky = 1
    /\ previousRuns[3].id = "1000_2"
    /\ previousRuns[3].duration = 4000

-----------------------------------------------------------------------------
(* Claims about the status of a run (checked under SpecHistory).           *)

\* C21: the status of a Historical Run Record is one of passed, failed and
\* mixed and follows from the report's own summary alone: passed iff
\* summary.failed = 0, failed iff summary.failed > 0 and summary.passed = 0,
\* mixed iff both are > 0; the same report extracted alone gets the same
\* status.
C21_StatusFromOwnSummary ==
    Extracted =>
        \A i \in 1 .. Len(reports) :
            LET summary == reports[i].summary
                status  == previousRuns[i].status
            IN  /\ status \in {"passed", "failed", "mixed"}
                /\ status = "passed" <=> summary.failed = 0
                /\ status = "failed" <=> (summary.failed > 0 /\ summary.passed = 0)
                /\ status = "mixed" <=> (summary.failed > 0 /\ summary.passed > 0)
                /\ status = extractPreviousRunsDataOf(<<reports[i]>>)[1].status

\* C21's case: a list that holds a mixed, a failed and a passed run.
C21_Witness ==
    /\ Extracted
    /\ Len(reports) = 3
    /\ previousRuns[1].status = "mixed"
    /\ previousRuns[2].status = "failed"
    /\ previousRuns[3].status = "passed"
    /\ reports[3].summary.passed = 0

-----------------------------------------------------------------------------
(* Claims about totalAttemptsFailed (C22 checked under SpecRecord).        *)

C23_FailedAttemptsWithinAttempts ==
    Composed =>
        /\ \A n \in DOMAIN metricsMap :
              metricsMap[n].totalAttemptsFailed <= metricsMap[n].totalAttempts
        /\ LET runMetrics == consolidateTestMetricsToRunMetrics(metricsMap)
           IN  runMetrics.totalAttemptsFailed <= runMetrics.totalAttempts

-----------------------------------------------------------------------------
(* Claims about the two engines side by side (checked under SpecEngines).  *)

\* C24: on every current report and list of previous reports the
\* calculateCurrentInsights of part_001 and that of insights.ts return the
\* same current value of flakyRate, failRate, skippedRate,
\* averageTestDuration and averageRunDuration.
C24_EnginesAgree ==
    (Composed \/ ComposedCtrf) =>
        \A m \in MetricNames :
            calculateCurrentInsightsOf(reports)[m].current =
                calculateCurrentInsightsOf_ctrf(reports)[m].current

-----------------------------------------------------------------------------
(* Claims about the Map after each report of the list (checked under Spec). *)

\* The Map after the first k reports of the list were folded.
MapAfter(k) == aggregateTestMetricsAcrossReports(SubSeq(reports, 1, k))

\* The valid reports among the first k.
ValidAmong(k) == { i \in 1 .. k : validateReportForInsights(reports[i]) }

\* The Map of insights.ts holds the metrics of part_001 under its own names.
SameAsCtrf(map, ctrf) ==
    /\ DOMAIN ctrf = DOMAIN map
    /\ \A n \in DOMAIN map : ctrf[n] = CtrfMetrics(map[n])

\* C25: after folding any prefix of the report list (retries >= 0), every
\* test name of the Map has 1 <= appearsInRuns <= totalResults <=
\* totalAttempts, totalResultsFlaky <= totalResults and appearsInRuns <= the
\* number of valid reports folded so far; folding one more report removes no
\* name and lowers no counter; the Map of insights.ts holds the same counters.
C25_CountersOrderedAndGrowing ==
    Composed =>
        /\ \A k \in 0 .. Len(reports) :
              LET map == MapAfter(k)
              IN  /\ SameAsCtrf(map,
                        aggregateTestMetricsAcrossReports_ctrf(SubSeq(reports, 1, k)))
                  /\ \A n \in DOMAIN map :
                        /\ 1 <= map[n].appearsInRuns
                        /\ map[n].appearsInRuns <= map[n].totalResults
                        /\ map[n].totalResults <= map[n].totalAttempts
                        /\ map[n].totalResultsFlaky <= map[n].totalResults
                        /\ map[n].appearsInRuns <= Cardinality(ValidAmong(k))
        /\ \A k \in 1 .. Len(reports) :
              /\ DOMAIN MapAfter(k - 1) \subseteq DOMAIN MapAfter(k)
              /\ \A n \in DOMAIN MapAfter(k - 1) :
                    \A field \in DOMAIN ZeroMetrics :
                        MapAfter(k - 1)[n][field] <= MapAfter(k)[n][field]
        /\ metricsMap = MapAfter(Len(reports))

\* C25's case: a report that holds the name a twice, one of the two a retried
\* test, folded after a malformed report: a appears in 1 run of 1 valid
\* report out of 2, with 2 results and 3 attempts.
C25_Witness ==
    /\ Composed
    /\ Len(reports) = 2
    /\ Malformed(reports[1])
    /\ MapAfter(1) = EmptyMap
    /\ DOMAIN metricsMap = {"a"}
    /\ metricsMap["a"].appearsInRuns = 1
    /\ metricsMap["a"].totalResults = 2
    /\ metricsMap["a"].totalAttempts = 3
    /\ metricsMap["a"].totalResultsFlaky = 0

====
